---- MODULE Spec2Model ----
(***************************************************************************)
(* Shopify synchronisation layer of stock-tracker: the local catalog      *)
(* (prisma.product), the integration settings row, the remote catalog     *)
(* behind shopify-api-node, the sync engine of                            *)
(* src/services/shopifyIntegration.ts, the route handlers that trigger it *)
(* and the webhook route.  Handlers are asynchronous: a handler is cut    *)
(* into steps at the awaits where another request can run in between.     *)
(***************************************************************************)
EXTENDS Integers, Sequences, FiniteSets, Bags, TLC

\* ------------------------------------------------------------------ bounds
MaxProducts == 2      \* local product ids ever assigned
MaxRemote == 2        \* remote product ids ever assigned
MaxStock == 1         \* largest stock count entered by an admin or merchant
MaxTasks == 2         \* requests that may overlap
SaleStock == 2        \* stock of the product put on sale

LocalIds == 1..MaxProducts
RemoteIds == 1..MaxRemote

\* ------------------------------------------------------------- data model
NoId == ""            \* externalIds has no "shopify" key (undefined is falsy)
NoBarcode == ""       \* barcode null (null and '' are both falsy)
NoProduct == [name |-> "", description |-> "", barcode |-> NoBarcode, price |-> 0,
              stockCount |-> 0, externalIds |-> [shopify |-> NoId], id |-> 0]
NoRemote == [title |-> "", body_html |-> "", barcode |-> NoBarcode, price |-> "",
             available |-> 0, createdFor |-> 0, id |-> 0, product_type |-> ""]
NoSettings == [isEnabled |-> FALSE, shopName |-> "", accessToken |-> "",
               apiSecret |-> "", row |-> FALSE]

\* What an admin types into the product form (create and edit).
AdminForms ==
  { [name |-> "n1", description |-> "d1", barcode |-> b, price |-> 1, stockCount |-> MaxStock]
      : b \in {NoBarcode, "b", "b-1"} }

\* The product form with the barcode left empty.
PlainForms == {form \in AdminForms : form.barcode = NoBarcode}

\* The product form with the barcode left empty or scanned from the label.
LabelForms == {form \in AdminForms : form.barcode \in {NoBarcode, "b"}}

\* What the merchant enters in the Shopify admin.
MerchantProducts ==
  { [title |-> "n2", body_html |-> "d2", barcode |-> b, price |-> "2.00", available |-> 0,
     product_type |-> ""]
      : b \in {NoBarcode, "b"} }

\* The same with a product type entered: absent, 'General', or 'general'.
TypedMerchantProducts ==
  { [title |-> "n2", body_html |-> "d2", barcode |-> NoBarcode, price |-> "2.00",
     available |-> 0, product_type |-> t]
      : t \in {"", "General", "general"} }

\* Bodies an admin posts to the settings route.
SettingsForms ==
  { [isEnabled |-> TRUE,  shopName |-> "shop", accessToken |-> "tok", apiSecret |-> "s1"],
    [isEnabled |-> FALSE, shopName |-> "shop", accessToken |-> "tok", apiSecret |-> "s1"],
    [isEnabled |-> TRUE,  shopName |-> "shop", accessToken |-> "",    apiSecret |-> ""],
    [isEnabled |-> TRUE,  shopName |-> "",     accessToken |-> "tok", apiSecret |-> "s1"] }

\* The same, and the admin rotating the access token.
RotationForms ==
  SettingsForms \cup
    { [isEnabled |-> TRUE, shopName |-> "shop", accessToken |-> "tok2", apiSecret |-> "s1"] }

VARIABLES
  products,     \* prisma.product: local id -> product, NoProduct when absent
  productTypes, \* prisma.productType: the names of the rows, a row's id is its position
  productTypeId,\* prisma.product.productTypeId: local id -> the type id the product was
                \* given (0 before); the copies of a deleted product in flight keep it
  nextLocal,    \* next ObjectId the database assigns to a product
  settings,     \* the IntegrationSettings row of type 'shopify', NoSettings when absent
  remote,       \* the shop's catalog: remote id -> product, NoRemote when absent
  nextRemote,   \* next product id the shop assigns
  tasks,        \* bag of the handler-triggered syncProductToShopify calls in flight
  bulk,         \* the syncAllProductsToShopify run
  import,       \* the importProductsFromShopify run
  webhook,      \* the webhook request being handled, and its response
  apiCalls,     \* the remote API calls issued by the latest step
  client,       \* the client they were issued through, NoClient when there are none
  response,     \* the response a product, stock or sale handler returns in the latest
                \* step, or the integration route's refusal
  newSales,     \* the prisma.sale rows created by the latest step
  history       \* the last one or two operations completed in succession, oldest first

vars == <<products, productTypes, productTypeId, nextLocal, settings, remote, nextRemote,
          tasks, bulk, import, webhook, apiCalls, client, response, newSales, history>>

Exists(p) == products[p].id # 0
RemoteExists(r) == remote[r].id # 0
LocalCount == Cardinality({p \in LocalIds : Exists(p)})

\* parseInt(shopifyProductId): the decimal string back to the number
parseInt(s) ==
  IF \E r \in RemoteIds : ToString(r) = s
  THEN CHOOSE r \in RemoteIds : ToString(r) = s
  ELSE 0

\* The shop renders a variant price as a decimal string
FormatPrice(n) == ToString(n) \o ".00"

\* parseFloat(shopifyProduct.variants[0]?.price || '0')
parseFloat(s) ==
  IF \E n \in 0..2 : FormatPrice(n) = s
  THEN CHOOSE n \in 0..2 : FormatPrice(n) = s
  ELSE 0

\* A finished run keeps its response in bulk / import / webhook until the next
\* request arrives.
Running(x) == x.pc \notin {"idle", "done", "rejected", "failed", "applied"}

\* Requests being handled.
InFlight ==
  BagCardinality(tasks) + (IF Running(bulk) THEN 1 ELSE 0)
    + (IF Running(import) THEN 1 ELSE 0) + (IF Running(webhook) THEN 1 ELSE 0)

\* Calls of syncProductToShopify between the return of product.create and the save
\* of the new id.
MidCall ==
  Cardinality({t \in BagToSet(tasks) : t.pc = "link"}) + (IF bulk.pc = "link" THEN 1 ELSE 0)

\* Ghost: a sync call or import run that completes joins the one completed just
\* before it when that was the same operation (for a sync call: on the same
\* product).  Any other operation in between, or another call running while it
\* completes (others: the calls in progress besides the one completing), ends the
\* succession.
Done(e, others) ==
  IF others > 0 THEN <<>>
  ELSE IF history = <<>> THEN <<e>>
  ELSE IF history[Len(history)].op # e.op THEN <<e>>
  ELSE IF e.op = "sync" /\ history[Len(history)].pid # e.pid THEN <<e>>
  ELSE <<history[Len(history)], e>>

\* ------------------------------------------------------- handler responses
NoResponse == [status |-> 0, by |-> "none"]

\* Variant: a handler that answers 500 when its sync did not succeed
HandlerResponseOfSync(by, synced) ==
  [status |-> IF ~synced THEN 500 ELSE IF by \in {"create", "sale"} THEN 201 ELSE 200,
   by |-> by]

\* What the handler returns after its try / catch around the sync: 201 with the
\* product or the sale, 200 with the product or success: true.  synced: what the
\* sync returned, false also when it was not called or threw.
HandlerResponse(by, synced) ==
  [status |-> IF by \in {"create", "sale"} THEN 201 ELSE 200, by |-> by]

\* ----------------------------------------------------- remote client factory
\* Variant: a factory that does not look at isEnabled
getShopifyClientOfAnyRow(s) == s.row /\ s.shopName # "" /\ s.accessToken # ""

\* getShopifyClient: null unless the row exists, is enabled and holds shop name and token
getShopifyClient(s) ==
  IF ~s.row \/ ~s.isEnabled THEN FALSE
  ELSE IF s.shopName = "" \/ s.accessToken = "" THEN FALSE
  ELSE TRUE

NoClient == [shopName |-> "", accessToken |-> ""]

\* Variant: a client built once, from the first credentials saved
ClientCached(s) == [shopName |-> "shop", accessToken |-> "tok"]

\* new Shopify({ shopName, accessToken, apiVersion }) from the settings just read
ClientFor(s) == [shopName |-> s.shopName, accessToken |-> s.accessToken]

\* The calls of a step go through the client made from the settings the step read.
UsedClient == client' = IF apiCalls' = <<>> THEN NoClient ELSE ClientFor(settings)

\* What can go wrong inside getShopifyClient: the settings read throws, or the
\* Shopify constructor does.
ClientFaults == {"none", "read", "construct"}

\* Variant: a factory that lets the constructor's exception escape as a client
getShopifyClientUncaught(s, fault) ==
  IF fault = "read" THEN FALSE ELSE getShopifyClient(s)

\* getShopifyClient with its failure paths: getShopifySettings catches and returns
\* null, the catch around new Shopify(...) returns null
getShopifyClientUnder(s, fault) ==
  IF fault = "read" THEN FALSE
  ELSE IF ~getShopifyClient(s) THEN FALSE
  ELSE IF fault = "construct" THEN FALSE
  ELSE TRUE

\* Variant: a gate that looks at the row only
isEnabledRowOnly(s) == s.row

\* A handler's gate on getShopifySettings(): the row exists and is enabled
isEnabled(s) == s.row /\ s.isEnabled

\* mapToShopifyProduct: the payload of product.create / product.update
mapToShopifyProduct(product) ==
  [title |-> product.name,
   body_html |-> product.description,
   product_type |-> IF productTypeId[product.id] = 0 THEN "Default"
                    ELSE productTypes[productTypeId[product.id]],
   barcode |-> product.barcode,
   variants |-> << [price |-> product.price, inventory_quantity |-> product.stockCount] >>]

\* The shop applying a create payload; the payload's variant carries no barcode.
RemoteCreated(payload, r, pid) ==
  [title |-> payload.title, body_html |-> payload.body_html, barcode |-> NoBarcode,
   price |-> FormatPrice(payload.variants[1].price),
   available |-> payload.variants[1].inventory_quantity,
   createdFor |-> pid, id |-> r, product_type |-> payload.product_type]

\* The shop applying an update payload to its product old.
RemoteUpdated(old, payload) ==
  [old EXCEPT !.title = payload.title, !.body_html = payload.body_html,
              !.product_type = payload.product_type,
              !.price = FormatPrice(payload.variants[1].price),
              !.available = payload.variants[1].inventory_quantity]

\* ------------------------------------------------------ single-product sync
\* The branch syncProductToShopify takes on the copy of the product it was passed.
SyncPath(product) ==
  IF product.externalIds.shopify # NoId THEN "update" ELSE "create"

\* syncProductToShopify up to the return of product.update / product.create.
\* ok: the remote call succeeds.  The result says what the shop holds afterwards,
\* whether the call goes on to save the new id ("link") or returns, and what it returns.
syncProductToShopify(product, ok) ==
  LET shopifyProductId == product.externalIds.shopify
      shopifyProduct == mapToShopifyProduct(product)
      r == parseInt(shopifyProductId)
  IN
  IF ~getShopifyClient(settings)
  THEN [remote |-> remote, nextRemote |-> nextRemote, next |-> "return", ok |-> FALSE,
        path |-> "none", newId |-> 0, calls |-> <<>>]
  ELSE IF SyncPath(product) = "update"
  THEN IF ok /\ r \in RemoteIds /\ RemoteExists(r)
       THEN [remote |-> [remote EXCEPT ![r] = RemoteUpdated(@, shopifyProduct)],
             nextRemote |-> nextRemote, next |-> "return", ok |-> TRUE,
             path |-> "update", newId |-> 0, calls |-> <<"product.update">>]
       ELSE [remote |-> remote, nextRemote |-> nextRemote, next |-> "return", ok |-> FALSE,
             path |-> "update", newId |-> 0, calls |-> <<"product.update">>]
  ELSE IF ok
       THEN [remote |-> [remote EXCEPT ![nextRemote] =
                           RemoteCreated(shopifyProduct, nextRemote, product.id)],
             nextRemote |-> nextRemote + 1, next |-> "link", ok |-> TRUE,
             path |-> "create", newId |-> nextRemote, calls |-> <<"product.create">>]
       ELSE [remote |-> remote, nextRemote |-> nextRemote, next |-> "return", ok |-> FALSE,
             path |-> "create", newId |-> 0, calls |-> <<"product.create">>]

\* Outcomes of the remote call; once the shop has assigned MaxRemote ids a create fails.
RemoteOutcomes(product) ==
  IF SyncPath(product) = "create" /\ nextRemote > MaxRemote THEN {FALSE} ELSE BOOLEAN

\* The externalIds the create path writes back: the passed copy's, plus the new id.
LinkedIds(product, newId) ==
  [product.externalIds EXCEPT !.shopify = ToString(newId)]

\* prisma.product.update({ where: { id }, data: { externalIds } }); throws when the
\* row is gone, and syncProductToShopify then returns false.
SaveExternalIds(product, newId) ==
  IF Exists(product.id)
  THEN [products |-> [products EXCEPT ![product.id].externalIds = LinkedIds(product, newId)],
        ok |-> TRUE]
  ELSE [products |-> products, ok |-> FALSE]

SyncEntry(product, path, ok) ==
  [op |-> "sync", pid |-> product.id, path |-> path, ok |-> ok]

\* by: the handler that awaits the call
SyncTask(product, by) == [product |-> product, pc |-> "call", newId |-> 0, by |-> by]

\* A handler's sync: the handler's isEnabled gate, then syncProductToShopify.  A
\* direct call of the exported function has no gate before it.
SyncCall(t) ==
  /\ t.pc = "call"
  /\ IF t.by # "direct" /\ ~isEnabled(settings)
     THEN /\ tasks' = tasks (-) SetToBag({t})
          /\ apiCalls' = <<>>
          /\ history' = <<>>
          /\ response' = HandlerResponse(t.by, FALSE)
          /\ UNCHANGED <<remote, nextRemote>>
     ELSE \E ok \in RemoteOutcomes(t.product) :
            LET out == syncProductToShopify(t.product, ok)
            IN /\ remote' = out.remote
               /\ nextRemote' = out.nextRemote
               /\ apiCalls' = out.calls
               /\ IF out.next = "link"
                  THEN /\ tasks' = (tasks (-) SetToBag({t})) (+)
                                   SetToBag({[t EXCEPT !.pc = "link", !.newId = out.newId]})
                       /\ response' = NoResponse
                       /\ UNCHANGED history
                  ELSE /\ tasks' = tasks (-) SetToBag({t})
                       /\ response' = IF t.by = "direct" THEN NoResponse
                                      ELSE HandlerResponse(t.by, out.ok)
                       /\ history' = Done(SyncEntry(t.product, out.path, out.ok), MidCall)
  /\ UsedClient
  /\ UNCHANGED <<productTypes, productTypeId>>
  /\ newSales' = <<>>
  /\ UNCHANGED <<products, nextLocal, settings, bulk, import, webhook>>

SyncLink(t) ==
  /\ t.pc = "link"
  /\ LET out == SaveExternalIds(t.product, t.newId)
     IN /\ products' = out.products
        /\ history' = Done(SyncEntry(t.product, "create", out.ok), MidCall - 1)
        /\ response' = IF t.by = "direct" THEN NoResponse
                       ELSE HandlerResponse(t.by, out.ok)
  /\ tasks' = tasks (-) SetToBag({t})
  /\ apiCalls' = <<>>
  /\ client' = NoClient
  /\ UNCHANGED <<productTypes, productTypeId>>
  /\ newSales' = <<>>
  /\ UNCHANGED <<nextLocal, settings, remote, nextRemote, bulk, import, webhook>>

\* ---------------------------------------------------------------- responses
BulkIdle == [pc |-> "idle", list |-> <<>>, i |-> 0, newId |-> 0,
             success |-> FALSE, total |-> 0, synced |-> 0, failed |-> 0]

ImportIdle == [pc |-> "idle", list |-> <<>>, i |-> 0, before |-> 0,
               success |-> FALSE, total |-> 0, imported |-> 0, updated |-> 0, failed |-> 0,
               importedIds |-> {}, updatedIds |-> {}, client |-> NoClient]

NoChecks == [enabled |-> FALSE, headers |-> FALSE, digest |-> "none", parsed |-> FALSE]
NotJson == [json |-> FALSE, id |-> 0, title |-> "", body_html |-> ""]
NoRequest == [hmacHeader |-> [key |-> "", text |-> NotJson], shopifyDomain |-> "",
              topic |-> "", body |-> NotJson]
WebhookIdle == [pc |-> "idle", status |-> 0, apiSecret |-> "", req |-> NoRequest,
                data |-> NotJson, product |-> 0, checks |-> NoChecks, error |-> ""]

ClearBulk == bulk' = IF Running(bulk) THEN bulk ELSE BulkIdle
ClearImport == import' = IF Running(import) THEN import ELSE ImportIdle
ClearWebhook == webhook' = IF Running(webhook) THEN webhook ELSE WebhookIdle
ClearResponses == ClearBulk /\ ClearImport /\ ClearWebhook

\* --------------------------------------------------------- product handlers
BarcodeHeld(barcode, except) ==
  \E q \in LocalIds : q # except /\ Exists(q) /\ products[q].barcode = barcode

\* POST /api/products: create the row with empty externalIds, then sync it.
\* A barcode already held makes prisma.product.create throw: no product, no sync.
CreateProduct(form) ==
  /\ nextLocal <= MaxProducts
  /\ form.barcode = NoBarcode \/ ~BarcodeHeld(form.barcode, 0)
  /\ LET product == [name |-> form.name, description |-> form.description,
                     barcode |-> form.barcode, price |-> form.price,
                     stockCount |-> form.stockCount,
                     externalIds |-> [shopify |-> NoId], id |-> nextLocal]
     IN /\ products' = [products EXCEPT ![nextLocal] = product]
        /\ tasks' = tasks (+) SetToBag({SyncTask(product, "create")})
  /\ productTypeId' = [productTypeId EXCEPT ![nextLocal] = 1]  \* the form's productTypeId
  /\ UNCHANGED productTypes
  /\ newSales' = <<>>
  /\ nextLocal' = nextLocal + 1
  /\ apiCalls' = <<>>
  /\ ClearResponses
  /\ response' = NoResponse
  /\ client' = NoClient
  /\ UNCHANGED <<settings, remote, nextRemote, history>>

\* PUT /api/products/[id]: overwrite the form fields (externalIds is not among them),
\* then sync only when the form asks for it.
UpdateProduct(p, form, syncToShopify) ==
  /\ Exists(p)
  /\ form.barcode = NoBarcode \/ ~BarcodeHeld(form.barcode, p)
  /\ LET updatedProduct == [products[p] EXCEPT !.name = form.name,
                              !.description = form.description, !.barcode = form.barcode,
                              !.price = form.price, !.stockCount = form.stockCount]
     IN /\ products' = [products EXCEPT ![p] = updatedProduct]
        /\ IF syncToShopify
           THEN /\ tasks' = tasks (+) SetToBag({SyncTask(updatedProduct, "update")})
                /\ response' = NoResponse
                /\ UNCHANGED history
           ELSE /\ UNCHANGED tasks
                /\ response' = HandlerResponse("update", FALSE)
                /\ history' = <<>>
  /\ apiCalls' = <<>>
  /\ ClearResponses
  /\ client' = NoClient
  /\ UNCHANGED <<productTypes, productTypeId>>
  /\ newSales' = <<>>
  /\ UNCHANGED <<nextLocal, settings, remote, nextRemote>>

\* data of tx.sale.create
SaleRow(product, quantity) ==
  [productId |-> product.id, quantity |-> quantity, totalPrice |-> product.price * quantity]

\* POST /api/sales with nothing else running: the transaction (sale row, stock
\* decrement), then a sync of the updated product.
CreateSale(p, quantity) ==
  /\ Exists(p)
  /\ quantity >= 1
  /\ products[p].stockCount >= quantity
  /\ LET updatedProduct == [products[p] EXCEPT !.stockCount = @ - quantity]
     IN /\ products' = [products EXCEPT ![p] = updatedProduct]
        /\ tasks' = tasks (+) SetToBag({SyncTask(updatedProduct, "sale")})
  /\ newSales' = <<SaleRow(products[p], quantity)>>
  /\ apiCalls' = <<>>
  /\ ClearResponses
  /\ response' = NoResponse
  /\ client' = NoClient
  /\ UNCHANGED <<productTypes, productTypeId>>
  /\ UNCHANGED <<nextLocal, settings, remote, nextRemote, history>>

\* The product form of a shop that sells from a stock of SaleStock.
SaleForms ==
  { [name |-> "n1", description |-> "d1", barcode |-> NoBarcode, price |-> 2,
     stockCount |-> SaleStock] }

\* POST /api/sales inside its transaction, after tx.product.findUnique: product is
\* the row as read (NoProduct when there is none).
SaleTask(p, quantity) ==
  [pc |-> "sale", by |-> "sale", pid |-> p, quantity |-> quantity, product |-> products[p],
   newId |-> 0]

\* POST /api/sales up to there: 400 on a missing or non-positive quantity
SaleBegin(p, quantity) ==
  /\ IF quantity < 1
     THEN /\ response' = [status |-> 400, by |-> "sale"]
          /\ UNCHANGED tasks
     ELSE /\ response' = NoResponse
          /\ tasks' = tasks (+) SetToBag({SaleTask(p, quantity)})
  /\ apiCalls' = <<>>
  /\ ClearResponses
  /\ client' = NoClient
  /\ newSales' = <<>>
  /\ UNCHANGED <<products, productTypes, productTypeId, nextLocal, settings, remote,
                 nextRemote, history>>

\* The rest of the transaction and its commit.  'Product not found' is answered 500
\* and 'Not enough stock available' 400; when the row has been written or deleted
\* since the transaction read it, tx.product.update fails on the write conflict (or
\* on the missing row), the sale row is rolled back and the answer is 500.  After a
\* commit the handler goes on to sync the updated product.
SaleCommit(t) ==
  /\ t.pc = "sale"
  /\ LET status == IF t.product.id = 0 THEN 500
                   ELSE IF t.product.stockCount < t.quantity THEN 400
                   ELSE IF products[t.pid] # t.product THEN 500
                   ELSE 201
         updatedProduct == [t.product EXCEPT !.stockCount = @ - t.quantity]
     IN IF status = 201
        THEN /\ newSales' = <<SaleRow(t.product, t.quantity)>>
             /\ products' = [products EXCEPT ![t.pid] = updatedProduct]
             /\ tasks' = (tasks (-) SetToBag({t})) (+) SetToBag({SyncTask(updatedProduct, "sale")})
             /\ response' = NoResponse
        ELSE /\ newSales' = <<>>
             /\ tasks' = tasks (-) SetToBag({t})
             /\ response' = [status |-> status, by |-> "sale"]
             /\ UNCHANGED products
  /\ apiCalls' = <<>>
  /\ history' = <<>>
  /\ client' = NoClient
  /\ UNCHANGED <<productTypes, productTypeId, nextLocal, settings, remote, nextRemote, bulk,
                 import, webhook>>

\* Variant: a delete propagation that does not look at the link
deleteProductFromShopifyUnchecked(productId, ok) ==
  IF ~getShopifyClient(settings)
  THEN [remote |-> remote, ok |-> FALSE, calls |-> <<>>]
  ELSE [remote |-> remote, ok |-> FALSE, calls |-> <<"product.delete">>]

\* deleteProductFromShopify: nothing to do when unlinked, else product.delete
deleteProductFromShopify(productId, ok) ==
  LET product == products[productId]
      r == parseInt(product.externalIds.shopify)
  IN
  IF ~getShopifyClient(settings)
  THEN [remote |-> remote, ok |-> FALSE, calls |-> <<>>]
  ELSE IF product.externalIds.shopify = NoId
  THEN [remote |-> remote, ok |-> TRUE, calls |-> <<>>]
  ELSE IF ok /\ r \in RemoteIds /\ RemoteExists(r)
  THEN [remote |-> [remote EXCEPT ![r] = NoRemote], ok |-> TRUE,
        calls |-> <<"product.delete">>]
  ELSE [remote |-> remote, ok |-> FALSE, calls |-> <<"product.delete">>]

\* DELETE /api/products/[id]: remote delete when enabled, then the local delete
\* whatever the remote outcome.
DeleteProduct(p) ==
  /\ Exists(p)
  /\ \E ok \in BOOLEAN :
       LET out == deleteProductFromShopify(p, ok)
       IN /\ IF isEnabled(settings)
             THEN remote' = out.remote /\ apiCalls' = out.calls
             ELSE remote' = remote /\ apiCalls' = <<>>
          /\ response' = HandlerResponse("delete", isEnabled(settings) /\ out.ok)
  /\ products' = [products EXCEPT ![p] = NoProduct]
  /\ UNCHANGED <<productTypes, productTypeId>>
  /\ newSales' = <<>>
  /\ history' = <<>>
  /\ ClearResponses
  /\ UsedClient
  /\ UNCHANGED <<nextLocal, settings, nextRemote, tasks>>

\* ------------------------------------------------------ inventory-only sync
\* What the shop answers to the calls of one inventory-only sync: product.get
\* throws, the product has no variant, inventoryLevel.list throws or is empty,
\* inventoryLevel.set throws, or all succeed.
ShopAnswers == {"ok", "getFails", "noVariant", "listFails", "noLevel", "setFails"}

\* Variant: an inventory sync that sets the level without the two lookups
syncInventoryToShopifyDirectSet(productId, quantity, answer) ==
  LET r == parseInt(products[productId].externalIds.shopify)
  IN IF ~getShopifyClient(settings) \/ products[productId].externalIds.shopify = NoId
        \/ ~(r \in RemoteIds /\ RemoteExists(r))
     THEN [remote |-> remote, ok |-> FALSE, calls |-> <<>>]
     ELSE [remote |-> [remote EXCEPT ![r].available = quantity], ok |-> TRUE,
           calls |-> <<"inventoryLevel.set">>]

\* syncInventoryToShopify(productId, quantity); the product is read from the database
syncInventoryToShopify(productId, quantity, answer) ==
  LET product == products[productId]
      shopifyProductId == product.externalIds.shopify
      r == parseInt(shopifyProductId)
      failed(calls) == [remote |-> remote, ok |-> FALSE, calls |-> calls]
  IN
  IF ~getShopifyClient(settings) THEN failed(<<>>)
  ELSE IF shopifyProductId = NoId THEN failed(<<>>)
  ELSE IF answer = "getFails" \/ ~(r \in RemoteIds /\ RemoteExists(r))
  THEN failed(<<"product.get">>)
  ELSE IF answer = "noVariant" THEN failed(<<"product.get">>)
  ELSE IF answer \in {"listFails", "noLevel"}
  THEN failed(<<"product.get", "inventoryLevel.list">>)
  ELSE IF answer = "setFails"
  THEN failed(<<"product.get", "inventoryLevel.list", "inventoryLevel.set">>)
  ELSE [remote |-> [remote EXCEPT ![r].available = quantity], ok |-> TRUE,
        calls |-> <<"product.get", "inventoryLevel.list", "inventoryLevel.set">>]

InventoryEntry(productId, quantity, answer, out) ==
  [op |-> "inventory", pid |-> productId, quantity |-> quantity, answer |-> answer,
   ok |-> out.ok, calls |-> out.calls]

InventoryTask(product, by) == [product |-> product, pc |-> "inventory", newId |-> 0, by |-> by]

\* POST /api/products/stock: set, add or subtract, then sync the inventory
AdjustStock(p, operation, quantity) ==
  /\ Exists(p)
  /\ LET newStockCount ==
           CASE operation = "set" -> quantity
             [] operation = "add" -> products[p].stockCount + quantity
             [] operation = "subtract" ->
                  IF products[p].stockCount - quantity < 0 THEN 0
                  ELSE products[p].stockCount - quantity
         updatedProduct == [products[p] EXCEPT !.stockCount = newStockCount]
     IN /\ newStockCount \in -MaxStock..MaxStock
        /\ products' = [products EXCEPT ![p] = updatedProduct]
        /\ tasks' = tasks (+) SetToBag({InventoryTask(updatedProduct, "stock")})
  /\ apiCalls' = <<>>
  /\ ClearResponses
  /\ response' = NoResponse
  /\ client' = NoClient
  /\ UNCHANGED <<productTypes, productTypeId>>
  /\ newSales' = <<>>
  /\ UNCHANGED <<nextLocal, settings, remote, nextRemote, history>>

\* The stock handler's isEnabled gate, then syncInventoryToShopify(productId,
\* newStockCount); a direct call has no gate before it.
InventoryCall(t) ==
  /\ t.pc = "inventory"
  /\ IF t.by # "direct" /\ ~isEnabled(settings)
     THEN /\ apiCalls' = <<>>
          /\ history' = <<>>
          /\ response' = HandlerResponse(t.by, FALSE)
          /\ UNCHANGED remote
     ELSE \E answer \in ShopAnswers :
            LET out == syncInventoryToShopify(t.product.id, t.product.stockCount, answer)
            IN /\ remote' = out.remote
               /\ apiCalls' = out.calls
               /\ history' = <<InventoryEntry(t.product.id, t.product.stockCount,
                                              answer, out)>>
               /\ response' = IF t.by = "direct" THEN NoResponse
                              ELSE HandlerResponse(t.by, out.ok)
  /\ tasks' = tasks (-) SetToBag({t})
  /\ UsedClient
  /\ UNCHANGED <<productTypes, productTypeId>>
  /\ newSales' = <<>>
  /\ UNCHANGED <<products, nextLocal, settings, nextRemote, bulk, import, webhook>>

\* ------------------------------------------------- the engine called directly
\* syncProductToShopify(product) called on the stored product, outside a handler
CallSync(p) ==
  /\ Exists(p)
  /\ tasks' = tasks (+) SetToBag({SyncTask(products[p], "direct")})
  /\ apiCalls' = <<>>
  /\ ClearResponses
  /\ response' = NoResponse
  /\ client' = NoClient
  /\ UNCHANGED <<productTypes, productTypeId>>
  /\ newSales' = <<>>
  /\ UNCHANGED <<products, nextLocal, settings, remote, nextRemote, history>>

\* syncInventoryToShopify(productId, quantity) called outside a handler
CallInventory(p, quantity) ==
  /\ Exists(p)
  /\ tasks' = tasks (+)
       SetToBag({InventoryTask([products[p] EXCEPT !.stockCount = quantity], "direct")})
  /\ apiCalls' = <<>>
  /\ ClearResponses
  /\ response' = NoResponse
  /\ client' = NoClient
  /\ UNCHANGED <<productTypes, productTypeId>>
  /\ newSales' = <<>>
  /\ UNCHANGED <<products, nextLocal, settings, remote, nextRemote, history>>

ClientEntry(fault, made) == [op |-> "client", fault |-> fault, ok |-> made]

\* getShopifyClient() called outside a handler
CallClient ==
  /\ \E fault \in ClientFaults :
       history' = <<ClientEntry(fault, getShopifyClientUnder(settings, fault))>>
  /\ apiCalls' = <<>>
  /\ ClearResponses
  /\ response' = NoResponse
  /\ client' = NoClient
  /\ UNCHANGED <<productTypes, productTypeId>>
  /\ newSales' = <<>>
  /\ UNCHANGED <<products, nextLocal, settings, remote, nextRemote, tasks>>

DeleteEntry(productId, out) ==
  [op |-> "delete", pid |-> productId,
   linked |-> products[productId].externalIds.shopify # NoId,
   ok |-> out.ok, calls |-> out.calls]

\* deleteProductFromShopify(productId) called outside a handler
CallDelete(p) ==
  /\ Exists(p)
  /\ \E ok \in BOOLEAN :
       LET out == deleteProductFromShopify(p, ok)
       IN /\ remote' = out.remote
          /\ apiCalls' = out.calls
          /\ history' = <<DeleteEntry(p, out)>>
  /\ ClearResponses
  /\ response' = NoResponse
  /\ UsedClient
  /\ UNCHANGED <<productTypes, productTypeId>>
  /\ newSales' = <<>>
  /\ UNCHANGED <<products, nextLocal, settings, nextRemote, tasks>>

\* --------------------------------------------------------------- settings
\* saveShopifySettings: update the row when it exists, create it otherwise
saveShopifySettings(form) ==
  /\ settings' = [isEnabled |-> form.isEnabled, shopName |-> form.shopName,
                  accessToken |-> form.accessToken, apiSecret |-> form.apiSecret,
                  row |-> TRUE]
  /\ apiCalls' = <<>>
  /\ history' = <<>>
  /\ ClearResponses
  /\ response' = NoResponse
  /\ client' = NoClient
  /\ UNCHANGED <<productTypes, productTypeId>>
  /\ newSales' = <<>>
  /\ UNCHANGED <<products, nextLocal, remote, nextRemote, tasks>>

\* The row a save writes.
SettingsRow(form) ==
  [isEnabled |-> form.isEnabled, shopName |-> form.shopName,
   accessToken |-> form.accessToken, apiSecret |-> form.apiSecret, row |-> TRUE]

SaveTask(form) ==
  [pc |-> "save", by |-> "POST", form |-> form, existingSettings |-> settings.row]

SaveEntry(form, saved) == [op |-> "save", form |-> form, ok |-> saved]

\* saveShopifySettings up to the return of findUnique
SaveFind(form) ==
  /\ tasks' = tasks (+) SetToBag({SaveTask(form)})
  /\ apiCalls' = <<>>
  /\ ClearResponses
  /\ response' = NoResponse
  /\ client' = NoClient
  /\ UNCHANGED <<productTypes, productTypeId>>
  /\ newSales' = <<>>
  /\ UNCHANGED <<products, nextLocal, settings, remote, nextRemote, history>>

\* saveShopifySettings from there: update the row found, or create one; create
\* throws on @@unique([integrationType]) when a row has appeared meanwhile, the
\* catch returns null, and the route answers success: true with settings: null.
SaveWrite(t) ==
  /\ t.pc = "save"
  /\ LET saved == t.existingSettings \/ ~settings.row
     IN /\ settings' = IF saved THEN SettingsRow(t.form) ELSE settings
        /\ history' = <<SaveEntry(t.form, saved)>>
  /\ tasks' = tasks (-) SetToBag({t})
  /\ apiCalls' = <<>>
  /\ response' = [status |-> 200, by |-> "POST"]
  /\ client' = NoClient
  /\ UNCHANGED <<productTypes, productTypeId>>
  /\ newSales' = <<>>
  /\ UNCHANGED <<products, nextLocal, remote, nextRemote, bulk, import, webhook>>

\* ------------------------------------------------------------ shop events
\* The merchant adds a product in the shop's own admin.
MerchantCreate(m) ==
  /\ nextRemote <= MaxRemote
  /\ remote' = [remote EXCEPT ![nextRemote] =
                  [title |-> m.title, body_html |-> m.body_html, barcode |-> m.barcode,
                   price |-> m.price, available |-> m.available, createdFor |-> 0,
                   id |-> nextRemote, product_type |-> m.product_type]]
  /\ nextRemote' = nextRemote + 1
  /\ apiCalls' = <<>>
  /\ history' = <<>>
  /\ ClearResponses
  /\ response' = NoResponse
  /\ client' = NoClient
  /\ UNCHANGED <<productTypes, productTypeId>>
  /\ newSales' = <<>>
  /\ UNCHANGED <<products, nextLocal, settings, tasks>>

\* The merchant deletes a product in the shop's own admin.
MerchantDelete(r) ==
  /\ RemoteExists(r)
  /\ remote' = [remote EXCEPT ![r] = NoRemote]
  /\ apiCalls' = <<>>
  /\ history' = <<>>
  /\ ClearResponses
  /\ response' = NoResponse
  /\ client' = NoClient
  /\ UNCHANGED <<productTypes, productTypeId>>
  /\ newSales' = <<>>
  /\ UNCHANGED <<products, nextLocal, settings, nextRemote, tasks>>

\* ---------------------------------------------------------------- bulk sync
RECURSIVE Ascending(_)
Ascending(S) ==
  IF S = {} THEN <<>>
  ELSE LET m == CHOOSE x \in S : \A y \in S : x <= y
       IN <<m>> \o Ascending(S \ {m})

\* prisma.product.findMany(): the rows in insertion order
findMany == [i \in 1..LocalCount |->
               products[Ascending({p \in LocalIds : Exists(p)})[i]]]

\* syncAllProductsToShopify: resolve the client, read all products once
BulkStart ==
  /\ bulk.pc \in {"idle", "done"}
  /\ bulk' = IF getShopifyClient(settings)
             THEN [BulkIdle EXCEPT !.pc = "loop", !.list = findMany, !.i = 1]
             ELSE [BulkIdle EXCEPT !.pc = "done"]
  /\ apiCalls' = <<>>
  /\ ClearImport /\ ClearWebhook
  /\ response' = NoResponse
  /\ client' = NoClient
  /\ UNCHANGED <<productTypes, productTypeId>>
  /\ newSales' = <<>>
  /\ UNCHANGED <<products, nextLocal, settings, remote, nextRemote, tasks, history>>

\* one iteration of the loop, up to the return of the remote call
BulkCall ==
  /\ bulk.pc = "loop"
  /\ bulk.i <= Len(bulk.list)
  /\ \E ok \in RemoteOutcomes(bulk.list[bulk.i]) :
       LET product == bulk.list[bulk.i]
           out == syncProductToShopify(product, ok)
       IN /\ remote' = out.remote
          /\ nextRemote' = out.nextRemote
          /\ apiCalls' = out.calls
          /\ IF out.next = "link"
             THEN /\ bulk' = [bulk EXCEPT !.pc = "link", !.newId = out.newId]
                  /\ UNCHANGED history
             ELSE /\ bulk' = [bulk EXCEPT !.i = @ + 1,
                                !.synced = IF out.ok THEN @ + 1 ELSE @,
                                !.failed = IF out.ok THEN @ ELSE @ + 1]
                  /\ history' = Done(SyncEntry(product, out.path, out.ok), MidCall)
  /\ response' = NoResponse
  /\ UsedClient
  /\ UNCHANGED <<productTypes, productTypeId>>
  /\ newSales' = <<>>
  /\ UNCHANGED <<products, nextLocal, settings, tasks, import, webhook>>

\* the same iteration after product.create returned
BulkLink ==
  /\ bulk.pc = "link"
  /\ LET product == bulk.list[bulk.i]
         out == SaveExternalIds(product, bulk.newId)
     IN /\ products' = out.products
        /\ bulk' = [bulk EXCEPT !.pc = "loop", !.newId = 0, !.i = @ + 1,
                      !.synced = IF out.ok THEN @ + 1 ELSE @,
                      !.failed = IF out.ok THEN @ ELSE @ + 1]
        /\ history' = Done(SyncEntry(product, "create", out.ok), MidCall - 1)
  /\ apiCalls' = <<>>
  /\ response' = NoResponse
  /\ client' = NoClient
  /\ UNCHANGED <<productTypes, productTypeId>>
  /\ newSales' = <<>>
  /\ UNCHANGED <<nextLocal, settings, remote, nextRemote, tasks, import, webhook>>

\* Variant: a run that reports success when nothing failed
BulkReturnUnlessFailed ==
  /\ bulk.pc = "loop"
  /\ bulk.i > Len(bulk.list)
  /\ bulk' = [BulkIdle EXCEPT !.pc = "done", !.success = bulk.failed = 0,
                !.total = Len(bulk.list), !.synced = bulk.synced, !.failed = bulk.failed]
  /\ apiCalls' = <<>>
  /\ response' = NoResponse
  /\ client' = NoClient
  /\ UNCHANGED <<productTypes, productTypeId>>
  /\ newSales' = <<>>
  /\ UNCHANGED <<products, nextLocal, settings, remote, nextRemote, tasks, import,
                 webhook, history>>

\* the loop is over: { success: synced > 0, total, synced, failed }
BulkReturn ==
  /\ bulk.pc = "loop"
  /\ bulk.i > Len(bulk.list)
  /\ bulk' = [BulkIdle EXCEPT !.pc = "done", !.success = bulk.synced > 0,
                !.total = Len(bulk.list), !.synced = bulk.synced, !.failed = bulk.failed]
  /\ apiCalls' = <<>>
  /\ response' = NoResponse
  /\ client' = NoClient
  /\ UNCHANGED <<productTypes, productTypeId>>
  /\ newSales' = <<>>
  /\ UNCHANGED <<products, nextLocal, settings, remote, nextRemote, tasks, import,
                 webhook, history>>

\* -------------------------------------------------------------- bulk import
ListLimit == 50

\* shopify.product.list({ limit: 50 })
listProducts ==
  LET ids == Ascending({r \in RemoteIds : RemoteExists(r)})
      n == IF Len(ids) < ListLimit THEN Len(ids) ELSE ListLimit
  IN [i \in 1..n |-> remote[ids[i]]]

ImportEntry(run, after) ==
  [op |-> "import", success |-> run.success, total |-> run.total,
   imported |-> run.imported, updated |-> run.updated, failed |-> run.failed,
   importedIds |-> run.importedIds, updatedIds |-> run.updatedIds,
   before |-> run.before, after |-> after]

\* Variant: a lookup that finds no product
FindByShopifyIdNone(shopifyId) == 0

\* products.find(product => exIds.shopify === shopifyId) over findMany(): 0 when none
FindByShopifyId(shopifyId) ==
  LET found == {p \in LocalIds : Exists(p) /\ products[p].externalIds.shopify = shopifyId}
  IN IF found = {} THEN 0 ELSE CHOOSE p \in found : \A q \in found : p <= q

\* The barcode the create branch stores for remote product shopifyProduct.
UniqueBarcode(shopifyProduct) ==
  LET shopifyId == ToString(shopifyProduct.id)
      barcode == shopifyProduct.barcode
  IN IF barcode # NoBarcode
     THEN IF BarcodeHeld(barcode, 0)
          THEN barcode \o "-" \o shopifyId
          ELSE barcode
     ELSE "shopify-" \o shopifyId

\* Remote products of the shop that no local product references.
Unmatched == {r \in RemoteIds : RemoteExists(r) /\ FindByShopifyId(ToString(r)) = 0}

\* Those of them whose barcode a create could store as things stand.
Creatable == {r \in Unmatched : ~BarcodeHeld(UniqueBarcode(remote[r]), 0)}

\* importProductsFromShopify: resolve the client, list the remote products
ImportStart ==
  /\ import.pc \in {"idle", "done"}
  /\ nextLocal + Cardinality(Creatable) <= MaxProducts + 1
  /\ \E ok \in BOOLEAN :
       IF getShopifyClient(settings) /\ ok
       THEN /\ import' = [ImportIdle EXCEPT !.pc = "loop", !.list = listProducts, !.i = 1,
                            !.client = ClientFor(settings),
                            !.before = LocalCount]
            /\ apiCalls' = <<"product.list">>
            /\ UNCHANGED history
       ELSE /\ import' = [ImportIdle EXCEPT !.pc = "done", !.before = LocalCount]
            /\ apiCalls' = IF getShopifyClient(settings) THEN <<"product.list">> ELSE <<>>
            /\ history' = Done(ImportEntry([ImportIdle EXCEPT !.before = LocalCount],
                                           LocalCount), MidCall)
  /\ ClearBulk /\ ClearWebhook
  /\ response' = NoResponse
  /\ UsedClient
  /\ UNCHANGED <<productTypes, productTypeId>>
  /\ newSales' = <<>>
  /\ UNCHANGED <<products, nextLocal, settings, remote, nextRemote, tasks>>

\* The local row written from remote product shopifyProduct.
ImportedFields(shopifyProduct, stockCount, barcode) ==
  [name |-> shopifyProduct.title, description |-> shopifyProduct.body_html,
   price |-> parseFloat(shopifyProduct.price), stockCount |-> stockCount,
   barcode |-> barcode, externalIds |-> [shopify |-> ToString(shopifyProduct.id)]]

\* prisma.productType.findFirst({ where: { name } }): the row's id, 0 when none
ProductTypeNamed(name) ==
  IF \E i \in DOMAIN productTypes : productTypes[i] = name
  THEN CHOOSE i \in DOMAIN productTypes :
         /\ productTypes[i] = name
         /\ \A j \in DOMAIN productTypes : productTypes[j] = name => i <= j
  ELSE 0

\* Variant: every imported product goes under 'General'
ResolveTypeNameAsGeneral(shopifyProduct) == "General"

\* shopifyProduct.product_type || 'General'
ResolveTypeName(shopifyProduct) ==
  IF shopifyProduct.product_type = "" THEN "General" ELSE shopifyProduct.product_type

\* one iteration of the import loop; invOk: inventoryLevel.list succeeds
ImportStep ==
  /\ import.pc = "loop"
  /\ import.i <= Len(import.list)
  /\ \E invOk \in BOOLEAN :
       LET shopifyProduct == import.list[import.i]
           shopifyId == ToString(shopifyProduct.id)
           existingProduct == FindByShopifyId(shopifyId)
           stockCount == IF invOk /\ RemoteExists(shopifyProduct.id)
                         THEN remote[shopifyProduct.id].available
                         ELSE 0
           uniqueBarcode == UniqueBarcode(shopifyProduct)
           typeName == ResolveTypeName(shopifyProduct)
           found == ProductTypeNamed(typeName)
           productType == IF found = 0 THEN Len(productTypes) + 1 ELSE found
       IN
       /\ productTypes' = IF found = 0 THEN Append(productTypes, typeName) ELSE productTypes
       /\ IF existingProduct # 0
          THEN LET f == ImportedFields(shopifyProduct, stockCount, shopifyProduct.barcode)
               IN IF f.barcode # NoBarcode /\ BarcodeHeld(f.barcode, existingProduct)
                  THEN \* unique constraint: prisma.product.update throws
                       /\ import' = [import EXCEPT !.i = @ + 1, !.failed = @ + 1]
                       /\ UNCHANGED <<products, productTypeId, nextLocal>>
                  ELSE /\ products' = [products EXCEPT ![existingProduct] =
                                         f @@ [id |-> existingProduct]]
                       /\ import' = [import EXCEPT !.i = @ + 1, !.updated = @ + 1,
                                       !.updatedIds = @ \cup {shopifyProduct.id}]
                       /\ UNCHANGED <<productTypeId, nextLocal>>
          ELSE LET f == ImportedFields(shopifyProduct, stockCount, uniqueBarcode)
               IN IF BarcodeHeld(uniqueBarcode, 0)
                  THEN \* unique constraint: prisma.product.create throws
                       /\ import' = [import EXCEPT !.i = @ + 1, !.failed = @ + 1]
                       /\ UNCHANGED <<products, productTypeId, nextLocal>>
                  ELSE /\ nextLocal <= MaxProducts
                       /\ products' = [products EXCEPT ![nextLocal] = f @@ [id |-> nextLocal]]
                       /\ productTypeId' = [productTypeId EXCEPT ![nextLocal] = productType]
                       /\ nextLocal' = nextLocal + 1
                       /\ import' = [import EXCEPT !.i = @ + 1, !.imported = @ + 1,
                                       !.importedIds = @ \cup {shopifyProduct.id}]
  /\ apiCalls' = <<"inventoryLevel.list">>
  /\ response' = NoResponse
  /\ client' = import.client
  /\ newSales' = <<>>
  /\ UNCHANGED <<settings, remote, nextRemote, tasks, bulk, webhook, history>>

\* Variant: an import that returns at the first failure
ImportReturnOnFailure ==
  /\ import.pc = "loop"
  /\ import.i > Len(import.list) \/ import.failed > 0
  /\ LET run == [ImportIdle EXCEPT !.pc = "done", !.success = TRUE,
                   !.total = Len(import.list), !.imported = import.imported,
                   !.updated = import.updated, !.failed = import.failed,
                   !.before = import.before, !.importedIds = import.importedIds,
                   !.updatedIds = import.updatedIds]
     IN /\ import' = run
        /\ history' = Done(ImportEntry(run, LocalCount), MidCall)
  /\ apiCalls' = <<>>
  /\ response' = NoResponse
  /\ client' = NoClient
  /\ UNCHANGED <<productTypes, productTypeId>>
  /\ newSales' = <<>>
  /\ UNCHANGED <<products, nextLocal, settings, remote, nextRemote, tasks, bulk, webhook>>

\* the loop is over: { success: true, total, imported, updated, failed }
ImportReturn ==
  /\ import.pc = "loop"
  /\ import.i > Len(import.list)
  /\ LET run == [ImportIdle EXCEPT !.pc = "done", !.success = TRUE,
                   !.total = Len(import.list), !.imported = import.imported,
                   !.updated = import.updated, !.failed = import.failed,
                   !.before = import.before, !.importedIds = import.importedIds,
                   !.updatedIds = import.updatedIds]
     IN /\ import' = run
        /\ history' = Done(ImportEntry(run, LocalCount), MidCall)
  /\ apiCalls' = <<>>
  /\ response' = NoResponse
  /\ client' = NoClient
  /\ UNCHANGED <<productTypes, productTypeId>>
  /\ newSales' = <<>>
  /\ UNCHANGED <<products, nextLocal, settings, remote, nextRemote, tasks, bulk, webhook>>

\* ------------------------------------------- /api/integrations/shopify route
\* getServerSession: no session, a signed-in user, a signed-in admin
Sessions == {"none", "user", "admin"}

\* Variant: a check that admits every signed-in user
AuthorizeAnySession(session) == IF session = "none" THEN 401 ELSE 200

\* The session checks at the top of GET, POST, PUT and PATCH
Authorize(session) ==
  IF session = "none" THEN 401
  ELSE IF session # "admin" THEN 403
  ELSE 200

\* The early return with 401 / 403
Refuse(status, method) ==
  /\ response' = [status |-> status, by |-> method]
  /\ apiCalls' = <<>>
  /\ client' = NoClient
  /\ UNCHANGED <<productTypes, productTypeId>>
  /\ newSales' = <<>>
  /\ UNCHANGED <<products, nextLocal, settings, remote, nextRemote, tasks, bulk, import,
                 webhook, history>>

\* testShopifyConnection(candidate settings); reachable: shop.get answers.  The
\* client library's constructor throws without shop name or access token.
testShopifyConnection(form, reachable) ==
  IF form.shopName = "" \/ form.accessToken = ""
  THEN [ok |-> FALSE, calls |-> <<>>]
  ELSE [ok |-> reachable, calls |-> <<"shop.get">>]

TestEntry(form, out) == [op |-> "test", form |-> form, ok |-> out.ok]

\* PUT: test the connection with the posted settings
ShopifyRoutePUT(session, form, reachable) ==
  IF Authorize(session) # 200 THEN Refuse(Authorize(session), "PUT")
  ELSE LET out == testShopifyConnection(form, reachable)
       IN /\ apiCalls' = out.calls
          /\ history' = <<TestEntry(form, out)>>
          /\ client' = IF out.calls = <<>> THEN NoClient ELSE ClientFor(form)
          /\ response' = NoResponse
          /\ ClearResponses
          /\ newSales' = <<>>
          /\ UNCHANGED <<products, productTypes, productTypeId, nextLocal, settings, remote,
                         nextRemote, tasks>>

\* POST: save the posted settings
ShopifyRoutePOST(session, form) ==
  IF Authorize(session) # 200 THEN Refuse(Authorize(session), "POST")
  ELSE saveShopifySettings(form)

\* PATCH: bulk sync
ShopifyRoutePATCH(session) ==
  IF Authorize(session) # 200 THEN Refuse(Authorize(session), "PATCH")
  ELSE BulkStart

\* GET ?action=import: bulk import
ShopifyRouteGET(session) ==
  IF Authorize(session) # 200 THEN Refuse(Authorize(session), "GET")
  ELSE ImportStart

\* ------------------------------------------------------------ product types
\* POST /api/product-types by an admin, up to its findFirst by name
TypeTask(name) ==
  [pc |-> "type", by |-> "types", name |-> name, existingType |-> ProductTypeNamed(name) # 0]

ProductTypesPOSTFind(name) ==
  /\ tasks' = tasks (+) SetToBag({TypeTask(name)})
  /\ apiCalls' = <<>>
  /\ ClearResponses
  /\ response' = NoResponse
  /\ client' = NoClient
  /\ UNCHANGED <<productTypes, productTypeId>>
  /\ newSales' = <<>>
  /\ UNCHANGED <<products, nextLocal, settings, remote, nextRemote, history>>

\* the route from there: 400 when the name was found; prisma.productType.create
\* throws on name @unique when a row of that name has appeared meanwhile (500)
ProductTypesPOSTCreate(t) ==
  /\ t.pc = "type"
  /\ LET status == IF t.existingType THEN 400
                   ELSE IF ProductTypeNamed(t.name) # 0 THEN 500
                   ELSE 201
     IN /\ productTypes' = IF status = 201 THEN Append(productTypes, t.name) ELSE productTypes
        /\ response' = [status |-> status, by |-> "types"]
  /\ tasks' = tasks (-) SetToBag({t})
  /\ apiCalls' = <<>>
  /\ client' = NoClient
  /\ newSales' = <<>>
  /\ UNCHANGED <<products, productTypeId, nextLocal, settings, remote, nextRemote, bulk,
                 import, webhook, history>>

\* ------------------------------------------------------------------ webhook
\* Variant: a digest that does not depend on the body
HmacIgnoringBody(secret, body) == [key |-> secret, text |-> NotJson]

\* crypto.createHmac('sha256', secret).update(body).digest('base64'): a digest is
\* reproduced only from the same key and the same bytes.
Hmac(secret, body) == [key |-> secret, text |-> body]

\* headers.get(...) gives null for a header that was not sent
NoHeader == [key |-> "", text |-> NotJson]

Topics == {"products/update", "products/delete", "inventory_levels/update", "orders/create"}

\* Raw bodies: text that is no JSON (NotJson), and JSON objects with or without an id.
RawBodies ==
  {NotJson} \cup { [json |-> TRUE, id |-> r, title |-> "n2", body_html |-> "d2"]
                     : r \in RemoteIds \cup {0} }

\* Keys a sender may sign with: the shop's shared secret, or a guess.
SenderKeys == {"s1", "s0"}

\* The signature header is absent, or the digest under one of the sender's keys of
\* the body sent or of another text.
WebhookRequests ==
  UNION { { [hmacHeader |-> h, shopifyDomain |-> d, topic |-> t, body |-> b]
              : h \in {NoHeader} \cup { Hmac(k, c) : k \in SenderKeys, c \in {b, NotJson} },
                d \in {"", "shop.myshopify.com"}, t \in Topics }
          : b \in RawBodies }

\* What the shop itself sends when the merchant deletes a product.
ShopDeleteRequests ==
  { req \in WebhookRequests :
      /\ req.hmacHeader = Hmac("s1", req.body)
      /\ req.shopifyDomain # ""
      /\ req.topic = "products/delete"
      /\ req.body.json }

Responded(req, pc, status, checks) ==
  [webhook EXCEPT !.req = req, !.pc = pc, !.status = status, !.checks = checks]

\* POST: read the settings; 400 when the integration is missing or disabled
WebhookReceive ==
  /\ webhook.pc \in {"idle", "rejected", "failed", "applied"}
  /\ webhook' = IF ~isEnabled(settings)
                THEN [WebhookIdle EXCEPT !.pc = "rejected", !.status = 400,
                        !.error = "Shopify integration not enabled"]
                ELSE [WebhookIdle EXCEPT !.pc = "received",
                        !.apiSecret = settings.apiSecret,
                        !.checks = [NoChecks EXCEPT !.enabled = TRUE]]
  /\ apiCalls' = <<>>
  /\ history' = <<>>
  /\ ClearBulk /\ ClearImport
  /\ response' = NoResponse
  /\ client' = NoClient
  /\ UNCHANGED <<productTypes, productTypeId>>
  /\ newSales' = <<>>
  /\ UNCHANGED <<products, nextLocal, settings, remote, nextRemote, tasks>>

\* The response the checks of POST give request req under the secret read earlier;
\* pc "verified" when all of them pass.
VerifyOutcome(req, apiSecret, checks) ==
  IF req.hmacHeader = NoHeader \/ req.shopifyDomain = ""
  THEN [Responded(req, "rejected", 401, checks)
          EXCEPT !.error = "Invalid webhook request"]
  ELSE IF apiSecret = ""
  THEN \* createHmac throws on an undefined key: the outer catch answers 500
       [Responded(req, "failed", 500, [checks EXCEPT !.headers = TRUE])
          EXCEPT !.error = "Failed to process webhook"]
  ELSE IF Hmac(apiSecret, req.body) # req.hmacHeader
  THEN [Responded(req, "rejected", 401,
                  [checks EXCEPT !.headers = TRUE, !.digest = "mismatch"])
          EXCEPT !.error = "Invalid webhook signature"]
  ELSE IF ~req.body.json
  THEN \* JSON.parse throws: the outer catch answers 500
       [Responded(req, "failed", 500, [checks EXCEPT !.headers = TRUE, !.digest = "match"])
          EXCEPT !.error = "Failed to process webhook"]
  ELSE [webhook EXCEPT !.req = req, !.pc = "verified", !.data = req.body,
          !.checks = [checks EXCEPT !.headers = TRUE, !.digest = "match",
                        !.parsed = TRUE]]

\* POST: header check, signature check, JSON.parse
WebhookVerify(req) ==
  /\ webhook.pc = "received"
  /\ webhook' = VerifyOutcome(req, webhook.apiSecret, webhook.checks)
  /\ apiCalls' = <<>>
  /\ response' = NoResponse
  /\ client' = NoClient
  /\ UNCHANGED <<productTypes, productTypeId>>
  /\ newSales' = <<>>
  /\ UNCHANGED <<products, nextLocal, settings, remote, nextRemote, tasks, bulk, import,
                 history>>

\* prisma.product.findFirst({ where: { externalIds: { path: ['shopify'], equals } } }),
\* read as the filter is written: the first product whose externalIds.shopify equals
\* the id (whether the MongoDB connector accepts a JSON path filter is outside the
\* source).  data.id.toString() throws inside the handler's try when the body has no id.
FindFirstByShopifyId(data) ==
  IF data.id = 0 THEN 0 ELSE FindByShopifyId(ToString(data.id))

\* POST: switch (topic), up to the handler's findFirst
WebhookDispatch ==
  /\ webhook.pc = "verified"
  /\ webhook' = [webhook EXCEPT !.pc = "dispatched",
                   !.product = IF webhook.req.topic \in {"products/update", "products/delete"}
                               THEN FindFirstByShopifyId(webhook.data)
                               ELSE 0]
  /\ apiCalls' = <<>>
  /\ response' = NoResponse
  /\ client' = NoClient
  /\ UNCHANGED <<productTypes, productTypeId>>
  /\ newSales' = <<>>
  /\ UNCHANGED <<products, nextLocal, settings, remote, nextRemote, tasks, bulk, import,
                 history>>

\* Variant: an update that also resets the stock
handleProductUpdateAll(product, data) ==
  [products EXCEPT ![product].name = data.title, ![product].description = data.body_html,
                   ![product].stockCount = 0]

\* handleProductUpdate: overwrite name and description of the product found
handleProductUpdate(product, data) ==
  [products EXCEPT ![product].name = data.title, ![product].description = data.body_html]

\* Variant: a delete that removes the local product
handleProductDeleteRemoving(product) ==
  [products EXCEPT ![product] = NoProduct]

\* handleProductDelete: empty the externalIds of the product found, keep the product
handleProductDelete(product) ==
  [products EXCEPT ![product].externalIds = [shopify |-> NoId]]

\* Variant: a handler that pushes the change back to the shop
handlerCallsSyncing == <<"product.update">>

\* The remote API calls the topic handlers make: the route builds no shop client.
handlerCalls == <<>>

\* POST: the handler's prisma.product.update (it throws inside the handler's try when
\* the row is gone), then the 200 response
WebhookApply ==
  /\ webhook.pc = "dispatched"
  /\ products' = IF webhook.product # 0 /\ Exists(webhook.product)
                 THEN IF webhook.req.topic = "products/update"
                      THEN handleProductUpdate(webhook.product, webhook.data)
                      ELSE handleProductDelete(webhook.product)
                 ELSE products
  /\ webhook' = [webhook EXCEPT !.pc = "applied", !.status = 200]
  /\ apiCalls' = handlerCalls
  /\ response' = NoResponse
  /\ client' = NoClient
  /\ UNCHANGED <<productTypes, productTypeId>>
  /\ newSales' = <<>>
  /\ UNCHANGED <<nextLocal, settings, remote, nextRemote, tasks, bulk, import, history>>

\* ------------------------------------------------------------ specification
Init ==
  /\ products = [p \in LocalIds |-> NoProduct]
  /\ productTypes = <<"Shop">>
  /\ productTypeId = [p \in LocalIds |-> 0]
  /\ nextLocal = 1
  /\ settings = NoSettings
  /\ remote = [r \in RemoteIds |-> NoRemote]
  /\ nextRemote = 1
  /\ tasks = EmptyBag
  /\ bulk = BulkIdle
  /\ import = ImportIdle
  /\ webhook = WebhookIdle
  /\ apiCalls = <<>>
  /\ client = NoClient
  /\ response = NoResponse
  /\ newSales = <<>>
  /\ history = <<>>

\* A request arrives only when fewer than limit requests are being handled.
Free(limit) == InFlight < limit

\* The handlers that trigger single-product sync, and bulk sync.
SyncNext(limit) ==
  \/ \E form \in SettingsForms : Free(limit) /\ saveShopifySettings(form)
  \/ \E form \in PlainForms : Free(limit) /\ CreateProduct(form)
  \/ \E p \in LocalIds, form \in PlainForms, syncToShopify \in BOOLEAN :
       Free(limit) /\ UpdateProduct(p, form, syncToShopify)
  \/ \E p \in LocalIds, quantity \in 1..MaxStock : Free(limit) /\ CreateSale(p, quantity)
  \/ \E p \in LocalIds : Free(limit) /\ DeleteProduct(p)
  \/ Free(limit) /\ BulkStart
  \/ \E t \in BagToSet(tasks) : SyncCall(t)
  \/ \E t \in BagToSet(tasks) : SyncLink(t)
  \/ BulkCall
  \/ BulkLink
  \/ BulkReturn

\* Requests overlap: up to MaxTasks are handled at once.
Spec == Init /\ [][SyncNext(MaxTasks)]_vars

\* One request at a time.
SeqSpec == Init /\ [][SyncNext(1)]_vars

\* The webhook route next to the handlers that link, edit and delete products.
WebhookNext ==
  \/ \E form \in SettingsForms : Free(MaxTasks) /\ saveShopifySettings(form)
  \/ \E form \in LabelForms : Free(MaxTasks) /\ CreateProduct(form)
  \/ \E p \in LocalIds : Free(MaxTasks) /\ DeleteProduct(p)
  \/ Free(MaxTasks) /\ WebhookReceive
  \/ \E t \in BagToSet(tasks) : SyncCall(t)
  \/ \E t \in BagToSet(tasks) : SyncLink(t)
  \/ \E req \in WebhookRequests : WebhookVerify(req)
  \/ WebhookDispatch
  \/ WebhookApply

WebhookSpec == Init /\ [][WebhookNext]_vars

\* Bulk import next to the shop's own changes and the handlers that create, link
\* and unlink products, one request at a time.
ImportNext ==
  \/ \E form \in SettingsForms : Free(1) /\ saveShopifySettings(form)
  \/ \E form \in AdminForms : Free(1) /\ CreateProduct(form)
  \/ \E p \in LocalIds : Free(1) /\ DeleteProduct(p)
  \/ \E m \in MerchantProducts : Free(1) /\ MerchantCreate(m)
  \/ \E r \in RemoteIds : Free(1) /\ MerchantDelete(r)
  \/ Free(1) /\ ImportStart
  \/ Free(1) /\ WebhookReceive
  \/ \E t \in BagToSet(tasks) : SyncCall(t)
  \/ \E t \in BagToSet(tasks) : SyncLink(t)
  \/ ImportStep
  \/ ImportReturn
  \/ \E req \in ShopDeleteRequests : WebhookVerify(req)
  \/ WebhookDispatch
  \/ WebhookApply

ImportSpec == Init /\ [][ImportNext]_vars

\* The exported functions of the sync engine called one at a time, by the handlers
\* and directly.
EngineNext ==
  \/ \E form \in SettingsForms : Free(1) /\ saveShopifySettings(form)
  \/ \E form \in PlainForms : Free(1) /\ CreateProduct(form)
  \/ \E p \in LocalIds, operation \in {"set", "add", "subtract"}, quantity \in 0..MaxStock :
       Free(1) /\ AdjustStock(p, operation, quantity)
  \/ \E p \in LocalIds : Free(1) /\ DeleteProduct(p)
  \/ \E p \in LocalIds, form \in PlainForms : Free(1) /\ UpdateProduct(p, form, TRUE)
  \/ \E p \in LocalIds : Free(1) /\ CreateSale(p, 1)
  \/ \E p \in LocalIds : Free(1) /\ CallSync(p)
  \/ \E p \in LocalIds, quantity \in 0..MaxStock : Free(1) /\ CallInventory(p, quantity)
  \/ \E p \in LocalIds : Free(1) /\ CallDelete(p)
  \/ Free(1) /\ CallClient
  \/ Free(1) /\ BulkStart
  \/ Free(1) /\ ImportStart
  \/ \E t \in BagToSet(tasks) : SyncCall(t)
  \/ \E t \in BagToSet(tasks) : SyncLink(t)
  \/ \E t \in BagToSet(tasks) : InventoryCall(t)
  \/ BulkCall
  \/ BulkLink
  \/ BulkReturn
  \/ ImportStep
  \/ ImportReturn

EngineSpec == Init /\ [][EngineNext]_vars

\* The integration route under every session, next to product creation and the
\* shop's own additions, one request at a time.
AdminNext ==
  \/ \E session \in Sessions, form \in SettingsForms :
       Free(1) /\ ShopifyRoutePOST(session, form)
  \/ \E session \in Sessions, form \in SettingsForms, reachable \in BOOLEAN :
       Free(1) /\ ShopifyRoutePUT(session, form, reachable)
  \/ \E session \in Sessions : Free(1) /\ ShopifyRoutePATCH(session)
  \/ \E session \in Sessions : Free(1) /\ ShopifyRouteGET(session)
  \/ \E form \in PlainForms : Free(1) /\ CreateProduct(form)
  \/ \E m \in MerchantProducts : Free(1) /\ MerchantCreate(m)
  \/ \E t \in BagToSet(tasks) : SyncCall(t)
  \/ \E t \in BagToSet(tasks) : SyncLink(t)
  \/ BulkCall
  \/ BulkLink
  \/ BulkReturn
  \/ ImportStep
  \/ ImportReturn

AdminSpec == Init /\ [][AdminNext]_vars

\* Settings saves overlapping each other and the product handlers' syncs.
SettingsNext ==
  \/ \E form \in RotationForms : Free(MaxTasks) /\ SaveFind(form)
  \/ \E t \in BagToSet(tasks) : SaveWrite(t)
  \/ \E form \in PlainForms : Free(MaxTasks) /\ CreateProduct(form)
  \/ \E t \in BagToSet(tasks) : SyncCall(t)
  \/ \E t \in BagToSet(tasks) : SyncLink(t)

SettingsSpec == Init /\ [][SettingsNext]_vars

\* Import of products the merchant typed, next to the product-types route.
TypeNext ==
  \/ \E form \in SettingsForms : Free(MaxTasks) /\ saveShopifySettings(form)
  \/ \E form \in PlainForms : Free(MaxTasks) /\ CreateProduct(form)
  \/ \E m \in TypedMerchantProducts : MerchantCreate(m)
  \/ \E name \in {"General", "general"} : Free(MaxTasks) /\ ProductTypesPOSTFind(name)
  \/ \E t \in BagToSet(tasks) : ProductTypesPOSTCreate(t)
  \/ ImportStart
  \/ \E t \in BagToSet(tasks) : SyncCall(t)
  \/ \E t \in BagToSet(tasks) : SyncLink(t)
  \/ ImportStep
  \/ ImportReturn

TypeSpec == Init /\ [][TypeNext]_vars

\* The stock route with any quantity in the request, next to sales and updates,
\* one request at a time.
StockNext ==
  \/ \E form \in SettingsForms : Free(1) /\ saveShopifySettings(form)
  \/ \E form \in PlainForms : Free(1) /\ CreateProduct(form)
  \/ \E p \in LocalIds, operation \in {"set", "add", "subtract"},
        quantity \in -MaxStock..MaxStock :
       Free(1) /\ AdjustStock(p, operation, quantity)
  \/ \E p \in LocalIds, form \in PlainForms : Free(1) /\ UpdateProduct(p, form, TRUE)
  \/ \E p \in LocalIds : Free(1) /\ CreateSale(p, 1)
  \/ \E t \in BagToSet(tasks) : SyncCall(t)
  \/ \E t \in BagToSet(tasks) : SyncLink(t)
  \/ \E t \in BagToSet(tasks) : InventoryCall(t)

StockSpec == Init /\ [][StockNext]_vars

\* Sales of one product overlapping each other and the product's own handlers.
SaleNext ==
  \/ \E form \in SettingsForms : Free(MaxTasks) /\ saveShopifySettings(form)
  \/ \E form \in SaleForms : Free(MaxTasks) /\ CreateProduct(form)
  \/ \E p \in LocalIds : Free(MaxTasks) /\ DeleteProduct(p)
  \/ \E p \in LocalIds, quantity \in 0..SaleStock : Free(MaxTasks) /\ SaleBegin(p, quantity)
  \/ \E t \in BagToSet(tasks) : SaleCommit(t)
  \/ \E t \in BagToSet(tasks) : SyncCall(t)
  \/ \E t \in BagToSet(tasks) : SyncLink(t)

SaleSpec == Init /\ [][SaleNext]_vars

\* ------------------------------------------------------------------ claims
\* The remote products the create path made for local product p.
CreatedFor(p) == {r \in RemoteIds : RemoteExists(r) /\ remote[r].createdFor = p}

\* history holds two calls of syncProductToShopify in succession on one product.
TwoSyncCalls == Len(history) = 2 /\ history[1].op = "sync" /\ history[2].op = "sync"

\* C1: when syncProductToShopify is called twice in succession on a product and
\* the first call created and linked its remote product, the second call takes
\* the update path and the shop holds exactly one remote product made for it,
\* the one recorded under externalIds.shopify.
C1_SecondCallUpdates ==
  (TwoSyncCalls /\ history[1].path = "create" /\ history[1].ok)
    => /\ history[2].path = "update"
       /\ Cardinality(CreatedFor(history[1].pid)) = 1
       /\ \A r \in CreatedFor(history[1].pid) :
            products[history[1].pid].externalIds.shopify = ToString(r)

\* C2: in every reachable state each local product has at most one remote product
\* created for it, and once no call is between product.create and the save of the
\* new id, that remote product is the one recorded under externalIds.shopify.
C2_OneRemotePerProduct ==
  \A p \in LocalIds :
    Exists(p) =>
      /\ Cardinality(CreatedFor(p)) <= 1
      /\ MidCall = 0 =>
           \A r \in CreatedFor(p) : products[p].externalIds.shopify = ToString(r)

\* history holds two runs of importProductsFromShopify in succession, both of which
\* listed the remote products.
TwoImportRuns ==
  /\ Len(history) = 2
  /\ history[1].op = "import" /\ history[2].op = "import"
  /\ history[1].success /\ history[2].success

\* C3: when importProductsFromShopify runs twice in succession, the second run
\* leaves the number of local products as it found it and counts every remote
\* product the first run imported as updated.
C3_SecondImportUpdates ==
  TwoImportRuns =>
    /\ history[2].before = history[1].after
    /\ history[2].after = history[2].before
    /\ history[1].importedIds \subseteq history[2].updatedIds

\* ---- webhook claims
HeadersPresent(req) == req.hmacHeader # NoHeader /\ req.shopifyDomain # ""

\* The signature header of req is the digest of the body sent, under key secret.
Authentic(req, secret) == req.hmacHeader.key = secret /\ req.hmacHeader.text = req.body

\* The step is one of the webhook route's own.
WebhookStep == webhook' # webhook /\ webhook'.pc # "idle"

LocalUnchanged == products' = products /\ nextLocal' = nextLocal /\ settings' = settings

\* C4: a webhook request whose signature header is not the digest of its raw body
\* under the stored secret is answered 401, and no step of the webhook route that
\* ends otherwise than in "applied" changes a product or the settings.
C4_MismatchRejected ==
  /\ [](( /\ HeadersPresent(webhook.req)
          /\ webhook.apiSecret # ""
          /\ ~Authentic(webhook.req, webhook.apiSecret) )
        => webhook.pc = "rejected" /\ webhook.status = 401)
  /\ [][(WebhookStep /\ webhook'.pc # "applied") => LocalUnchanged]_vars

C4_Witness ==
  /\ webhook.pc = "rejected" /\ webhook.status = 401
  /\ HeadersPresent(webhook.req)
  /\ webhook.req.hmacHeader.key = webhook.apiSecret
  /\ webhook.req.hmacHeader.text # webhook.req.body
  /\ webhook.req.topic = "products/delete"
  /\ \E p \in LocalIds :
       Exists(p) /\ products[p].externalIds.shopify = ToString(webhook.req.body.id)

\* C5: a request moves received -> verified -> dispatched -> applied, or is
\* rejected (or aborted with 500) straight from received; missing or disabled
\* settings give 400 before any header is looked at; an absent signature or domain
\* header gives 401; and the webhook route changes a product only in its last step,
\* after the enabled, header and signature checks passed.
C5_RequestOrder ==
  /\ [][webhook'.pc # webhook.pc =>
          CASE webhook'.pc = "received" -> ~Running(webhook)
            [] webhook'.pc = "verified" -> webhook.pc = "received"
            [] webhook'.pc = "dispatched" -> webhook.pc = "verified"
            [] webhook'.pc = "applied" -> webhook.pc = "dispatched"
            [] webhook'.pc = "rejected" -> webhook.pc = "received" \/ ~Running(webhook)
            [] webhook'.pc = "failed" -> webhook.pc = "received"
            [] OTHER -> ~Running(webhook)]_vars
  /\ [][(WebhookStep /\ ~Running(webhook)) =>
          IF ~settings.row \/ ~settings.isEnabled
          THEN webhook'.pc = "rejected" /\ webhook'.status = 400 /\ webhook'.req = NoRequest
          ELSE webhook'.pc = "received"]_vars
  /\ []((webhook.req # NoRequest /\ ~HeadersPresent(webhook.req))
        => webhook.pc = "rejected" /\ webhook.status = 401)
  /\ [][(WebhookStep /\ products' # products) =>
          /\ webhook.pc = "dispatched" /\ webhook'.pc = "applied"
          /\ webhook.checks.enabled
          /\ HeadersPresent(webhook.req)
          /\ Authentic(webhook.req, webhook.apiSecret)]_vars

C5_Witness ==
  /\ webhook.pc = "applied"
  /\ webhook.req.topic = "products/update"
  /\ webhook.product # 0
  /\ products[webhook.product].name = webhook.data.title

\* C6: every request that passed the signature check is answered 200.
C6_AlwaysAcknowledged ==
  ( /\ webhook.pc \in {"rejected", "failed", "applied"}
    /\ HeadersPresent(webhook.req)
    /\ webhook.apiSecret # ""
    /\ Authentic(webhook.req, webhook.apiSecret) )
  => webhook.pc = "applied" /\ webhook.status = 200

\* The last step of the webhook route, for a request with topic t.
Applies(t) == webhook.pc = "dispatched" /\ webhook'.pc = "applied" /\ webhook.req.topic = t

\* The step in which the topic handler looks the product up, for topic t.
Dispatches(t) == webhook.pc = "verified" /\ webhook'.pc = "dispatched" /\ webhook.req.topic = t

\* Some local product is linked to the remote id the notification names.
LinkedTo(data) ==
  \E p \in LocalIds : Exists(p) /\ products[p].externalIds.shopify = ToString(data.id)

C9_NoOutboundCall ==
  [][WebhookStep =>
       /\ apiCalls' = <<>>
       /\ remote' = remote
       /\ nextRemote' = nextRemote
       /\ tasks' = tasks]_vars

C9_Witness ==
  /\ webhook.pc = "applied"
  /\ webhook.req.topic = "products/update"
  /\ webhook.product # 0
  /\ products[webhook.product].name = "n2"
  /\ apiCalls = <<>>
  /\ tasks = EmptyBag
  /\ bulk.pc = "idle"

\* ---- import claims
\* C10: each iteration of the import loop over a remote product that no local
\* product references creates a product for it, whose barcode is the remote
\* barcode when no local product holds it, the remote barcode followed by "-" and
\* the remote id when one does, and "shopify-" followed by the remote id when the
\* remote product has no barcode.
C10_CreateBarcode ==
  [][(import.pc = "loop" /\ import'.pc = "loop" /\ import'.i = import.i + 1
        /\ FindByShopifyId(ToString(import.list[import.i].id)) = 0) =>
       LET shopifyProduct == import.list[import.i]
           shopifyId == ToString(shopifyProduct.id)
           held == \E q \in LocalIds :
                     Exists(q) /\ products[q].barcode = shopifyProduct.barcode
       IN /\ import'.imported = import.imported + 1
          /\ nextLocal' = nextLocal + 1
          /\ products'[nextLocal].id = nextLocal
          /\ products'[nextLocal].externalIds.shopify = shopifyId
          /\ products'[nextLocal].barcode =
               IF shopifyProduct.barcode = NoBarcode THEN "shopify-" \o shopifyId
               ELSE IF held THEN shopifyProduct.barcode \o "-" \o shopifyId
               ELSE shopifyProduct.barcode]_vars

\* The barcode an iteration of the import loop is about to write for remote product
\* shopifyProduct, and the local product it writes it to (0: a new one).
ImportTarget(shopifyProduct) == FindByShopifyId(ToString(shopifyProduct.id))
ImportBarcode(shopifyProduct) ==
  IF ImportTarget(shopifyProduct) # 0 THEN shopifyProduct.barcode
  ELSE UniqueBarcode(shopifyProduct)

\* C11: no iteration of the import loop writes to a local product a barcode that
\* another local product holds, and none counts its remote product as failed.
C11_ImportBarcodeFree ==
  [][(import.pc = "loop" /\ import'.pc = "loop" /\ import'.i = import.i + 1) =>
       LET shopifyProduct == import.list[import.i]
       IN /\ ImportBarcode(shopifyProduct) # NoBarcode =>
               ~\E q \in LocalIds :
                   /\ q # ImportTarget(shopifyProduct)
                   /\ Exists(q)
                   /\ products[q].barcode = ImportBarcode(shopifyProduct)
          /\ import'.failed = import.failed]_vars

\* ---- sale claims
\* The inventory-only sync: fetch the remote product, list the inventory levels of
\* its first variant, set the level.
InventoryCalls == <<"product.get", "inventoryLevel.list", "inventoryLevel.set">>

\* C12: the sync a sale triggers on a linked product, with the integration usable
\* and the remote calls succeeding, is the inventory-only sync, and it leaves the
\* remote inventory level at the stock the sale left.
C12_SaleSyncsInventoryOnly ==
  [][\A t \in BagToSet(tasks) :
       ( /\ t.by = "sale" /\ t.pc = "call"
         /\ tasks' = tasks (-) SetToBag({t})
         /\ t.product.externalIds.shopify # NoId
         /\ apiCalls' # <<>>
         /\ remote' # remote )
       => /\ apiCalls' = InventoryCalls
          /\ remote'[parseInt(t.product.externalIds.shopify)].available
               = t.product.stockCount]_vars
\* An engine call returns in this step: a task leaves, or a result is recorded.
EngineReturns ==
  \/ BagCardinality(tasks') < BagCardinality(tasks)
  \/ history' # history /\ history' # <<>>
  \/ bulk' # bulk /\ bulk'.pc = "done"
  \/ import' # import /\ import'.pc = "done"

\* C13: while the settings row is missing or has isEnabled = false, no step of any
\* sync path (single-product, inventory-only, delete propagation, bulk sync, bulk
\* import) calls the shop or changes the shop's catalog; an engine call that returns
\* changes no local product and reports failure (false, or success = false with all
\* counts zero).
C13_DisabledIsNoOp ==
  [][~isEnabled(settings) =>
       /\ apiCalls' = <<>>
       /\ remote' = remote /\ nextRemote' = nextRemote
       /\ EngineReturns => products' = products
       /\ (history' # history /\ history' # <<>>)
            => LET e == history'[Len(history')]
               IN IF e.op = "import" THEN ~e.success ELSE ~e.ok
       /\ (bulk' # bulk /\ bulk' # BulkIdle)
            => bulk' = [BulkIdle EXCEPT !.pc = "done"]
       /\ (import' # import /\ import' # ImportIdle)
            => /\ import'.pc = "done" /\ ~import'.success
               /\ import'.total = 0 /\ import'.imported = 0
               /\ import'.updated = 0 /\ import'.failed = 0]_vars

\* A linked product whose inventory-only sync was refused for the settings alone.
C13_Witness ==
  /\ ~isEnabled(settings)
  /\ history # <<>>
  /\ history[1].op = "inventory" /\ ~history[1].ok /\ history[1].calls = <<>>
  /\ Exists(history[1].pid)
  /\ products[history[1].pid].externalIds.shopify # NoId

\* The last recorded call is deleteProductFromShopify on an unlinked product.
UnlinkedDelete ==
  /\ history # <<>>
  /\ history[Len(history)].op = "delete"
  /\ ~history[Len(history)].linked

\* C14 as stated: deleteProductFromShopify on a product with no 'shopify' external
\* id reports success and issues zero remote calls.
C14_UnlinkedDeleteSucceeds ==
  UnlinkedDelete =>
    history[Len(history)].ok /\ history[Len(history)].calls = <<>>

\* C14 amended: deleteProductFromShopify on a product with no 'shopify' external id
\* issues zero remote calls, and reports success when a client is available (the
\* settings the call read are still the stored ones: saving settings clears the record).
C14_UnlinkedDeleteNoCalls ==
  UnlinkedDelete =>
    /\ history[Len(history)].calls = <<>>
    /\ history[Len(history)].ok = getShopifyClient(settings)

C14_Witness ==
  UnlinkedDelete /\ getShopifyClient(settings) /\ history[Len(history)].ok

\* The triggered sync did not succeed in this step: the engine call recorded
\* failure, or the handler's gate kept it from being called.
SyncFailed == history' = <<>> \/ ~history'[Len(history')].ok

\* C15: when the sync triggered by a product create, product update, stock
\* adjustment or sale returns without success, the handler's local change is still
\* the stored product and the handler returns its normal response (201 for create
\* and sale, 200 for update and stock); a product deletion removes the local
\* product and returns 200 whatever the remote delete did.
C15_SyncFailureNeverBlocks ==
  [][
      /\ \A t \in BagToSet(tasks) :
          ( t.by \in {"create", "update", "sale", "stock"}
            /\ tasks' = tasks (-) SetToBag({t}) /\ SyncFailed )
          => /\ products' = products
             /\ products'[t.product.id] = t.product
             /\ response' = [status |-> IF t.by \in {"create", "sale"} THEN 201 ELSE 200,
                             by |-> t.by]
      /\ \A p \in LocalIds :
          ( Exists(p) /\ tasks' = tasks /\ apiCalls' = <<"product.delete">>
            /\ products[p].externalIds.shopify # NoId /\ remote' = remote
            /\ ~Exists(p)' )
          => response' = [status |-> 200, by |-> "delete"]
      /\ response'.by = "delete" => LocalCount' = LocalCount - 1
    ]_vars

\* A handler has returned its response after a sync whose remote call failed.
C15_Witness ==
  /\ response.by \in {"create", "update", "sale", "stock"}
  /\ response.status \in {200, 201}
  /\ apiCalls # <<>>
  /\ history # <<>> /\ ~history[Len(history)].ok

\* What a finished bulk sync returned adds up.
BulkCountsAddUp ==
  /\ bulk.synced + bulk.failed = bulk.total
  /\ bulk.success <=> bulk.synced > 0

\* C16 as stated: a finished bulk sync returns total = number of local products,
\* synced + failed = total, and success exactly when synced > 0.
C16_BulkCountsAllProducts ==
  bulk.pc = "done" => bulk.total = LocalCount /\ BulkCountsAddUp

\* One iteration of the bulk loop ends in this step.
BulkAdvances == bulk.pc \in {"loop", "link"} /\ bulk'.pc = "loop" /\ bulk'.i # bulk.i

\* C16 amended: with a client available, bulk sync passes the local products to
\* single-product sync one after the other, each exactly once and whatever the
\* earlier results were, and returns total = number of local products, synced +
\* failed = total, success exactly when synced > 0; without a client it syncs nothing
\* and returns success = false with all counts zero.
C16_BulkSyncsEachOnce ==
  /\ [](bulk.pc \in {"loop", "link"} =>
          /\ bulk.synced + bulk.failed = bulk.i - 1
          /\ bulk.i <= Len(bulk.list) + 1
          /\ Len(bulk.list) = LocalCount
          /\ \A i, j \in 1..Len(bulk.list) : bulk.list[i].id = bulk.list[j].id => i = j
          /\ \A q \in LocalIds : Exists(q) => \E i \in 1..Len(bulk.list) : bulk.list[i].id = q)
  /\ [](bulk.pc = "done" =>
          /\ BulkCountsAddUp
          /\ bulk.total = IF getShopifyClient(settings) THEN LocalCount ELSE 0)
  /\ [][ /\ BulkAdvances =>
              /\ bulk'.i = bulk.i + 1 /\ bulk'.list = bulk.list
              /\ history' # <<>>
              /\ history'[Len(history')].op = "sync"
              /\ history'[Len(history')].pid = bulk.list[bulk.i].id
              /\ bulk'.synced = bulk.synced + (IF history'[Len(history')].ok THEN 1 ELSE 0)
              /\ bulk'.failed = bulk.failed + (IF history'[Len(history')].ok THEN 0 ELSE 1)
         /\ (bulk.pc = "loop" /\ bulk'.pc = "done") =>
              /\ bulk.i = Len(bulk.list) + 1
              /\ bulk'.total = Len(bulk.list)
              /\ bulk'.synced = bulk.synced /\ bulk'.failed = bulk.failed
              /\ remote' = remote /\ products' = products
       ]_vars

\* A finished run over two products whose first sync failed and second succeeded.
C16_Witness ==
  /\ bulk.pc = "done" /\ bulk.total = 2 /\ bulk.synced = 1 /\ bulk.failed = 1
  /\ history # <<>>
  /\ history[Len(history)].op = "sync" /\ history[Len(history)].pid = 2
  /\ history[Len(history)].ok

\* The remote products the import has counted as imported or updated are distinct
\* ones, each in one counter only.
ImportCountsDisjoint ==
  /\ Cardinality(import.importedIds) = import.imported
  /\ Cardinality(import.updatedIds) = import.updated
  /\ import.importedIds \cap import.updatedIds = {}

\* C17: the import counts every listed remote product in exactly one of imported,
\* updated and failed: after i - 1 iterations the three counters add up to i - 1,
\* whatever failed before, and the returned counters add up to total.
C17_ImportCountsEachOnce ==
  /\ import.pc = "loop" =>
       /\ import.imported + import.updated + import.failed = import.i - 1
       /\ import.i <= Len(import.list) + 1
       /\ ImportCountsDisjoint
       /\ import.importedIds \cup import.updatedIds
            \subseteq {import.list[k].id : k \in 1..(import.i - 1)}
  /\ import.pc = "done" =>
       /\ import.imported + import.updated + import.failed = import.total
       /\ ImportCountsDisjoint

\* A finished import of two remote products: the first failed, the second was
\* processed after it.
C17_Witness ==
  /\ import.pc = "done" /\ import.total = 2 /\ import.failed = 1
  /\ 2 \in import.importedIds \cup import.updatedIds

\* syncInventoryToShopify is called for task t in this step and returns.
InventoryReturns(t) ==
  /\ t.pc = "inventory" /\ tasks' = tasks (-) SetToBag({t})
  /\ t.by = "direct" \/ isEnabled(settings)

\* C18: a call of syncInventoryToShopify changes nothing but the remote level of
\* the linked product, and only in a call that issued product.get, then
\* inventoryLevel.list, then inventoryLevel.set; inventoryLevel.set is never issued
\* without the two lookups before it; for an unlinked product the call returns
\* false with no remote call and no change; when the remote product has no variant
\* or no inventory level the call returns false and never issues the set.
C18_InventoryLookupsFirst ==
  [][\A t \in BagToSet(tasks) : InventoryReturns(t) =>
       LET e == history'[Len(history')]
           shopifyProductId == products[t.product.id].externalIds.shopify
       IN /\ history' # <<>> /\ e.op = "inventory" /\ e.pid = t.product.id
          /\ e.calls = apiCalls'
          /\ products' = products /\ nextRemote' = nextRemote
          /\ \A i \in 1..Len(e.calls) : e.calls[i] = InventoryCalls[i]
          /\ e.ok => e.calls = InventoryCalls
          /\ remote' # remote =>
               /\ e.ok /\ shopifyProductId # NoId
               /\ remote' = [remote EXCEPT ![parseInt(shopifyProductId)].available =
                                             t.product.stockCount]
          /\ shopifyProductId = NoId => ~e.ok /\ e.calls = <<>> /\ remote' = remote
          /\ (getShopifyClient(settings) /\ shopifyProductId # NoId
              /\ RemoteExists(parseInt(shopifyProductId)))
               => /\ e.answer = "noVariant" => ~e.ok /\ e.calls = <<"product.get">>
                  /\ e.answer = "noLevel" =>
                       ~e.ok /\ e.calls = <<"product.get", "inventoryLevel.list">>]_vars

\* A completed inventory sync has set the level of the linked remote product.
C18_Witness ==
  /\ history # <<>>
  /\ history[Len(history)].op = "inventory" /\ history[Len(history)].ok
  /\ history[Len(history)].quantity = 1
  /\ apiCalls = InventoryCalls
  /\ \E r \in RemoteIds :
       /\ RemoteExists(r) /\ remote[r].available = 1
       /\ products[history[Len(history)].pid].externalIds.shopify = ToString(r)

\* The last recorded call is getShopifyClient(); the stored settings are the ones
\* it read, since saving settings clears the record.
ClientCalled == history # <<>> /\ history[Len(history)].op = "client"

\* C19: getShopifyClient returns null when the settings row is missing, when it is
\* disabled, when it lacks the shop name or the access token, when the settings read
\* fails and when constructing the client fails; it always returns, and the call
\* changes no product, no settings and nothing in the shop.
C19_ClientNullWhenUnusable ==
  /\ []( ( /\ ClientCalled
            /\ \/ ~settings.row \/ ~settings.isEnabled
               \/ settings.shopName = "" \/ settings.accessToken = ""
               \/ history[Len(history)].fault # "none" )
          => ~history[Len(history)].ok )
  /\ [][(history' # history /\ history' # <<>> /\ history'[Len(history')].op = "client")
          => /\ history'[Len(history')].ok \in BOOLEAN
             /\ apiCalls' = <<>>
             /\ UNCHANGED <<products, nextLocal, settings, remote, nextRemote, tasks>>]_vars

\* getShopifyClient returned null for an enabled row that has no shop name.
C19_Witness ==
  /\ ClientCalled /\ ~history[Len(history)].ok /\ history[Len(history)].fault = "none"
  /\ settings.row /\ settings.isEnabled /\ settings.shopName = ""

\* The request is refused in this step and changes nothing.
Refused(status, method) ==
  /\ response' = [status |-> status, by |-> method]
  /\ apiCalls' = <<>>
  /\ UNCHANGED <<products, nextLocal, settings, remote, nextRemote, tasks, bulk, import,
                 history>>

\* C20: a test-connection (PUT), bulk sync (PATCH), bulk import (GET ?action=import)
\* or settings save (POST) request without a session is answered 401, and one with
\* a session that is not an admin's 403; the step issues no remote call, starts no
\* bulk sync or import and changes no settings and no product.
C20_AdminOnly ==
  [][\A session \in Sessions \ {"admin"} :
       LET status == IF session = "none" THEN 401 ELSE 403
       IN /\ (\E form \in SettingsForms : ShopifyRoutePOST(session, form))
               => Refused(status, "POST")
          /\ (\E form \in SettingsForms, reachable \in BOOLEAN :
                ShopifyRoutePUT(session, form, reachable))
               => Refused(status, "PUT")
          /\ ShopifyRoutePATCH(session) => Refused(status, "PATCH")
          /\ ShopifyRouteGET(session) => Refused(status, "GET")]_vars

\* A signed-in user who is no admin asked for a bulk sync that would have had a
\* client and a product to sync, and got 403.
C20_Witness ==
  /\ response = [status |-> 403, by |-> "PATCH"]
  /\ getShopifyClient(settings)
  /\ LocalCount > 0

\* ---- settings claims
\* C21: after a settings save has completed, the one 'shopify' row holds the
\* enabled flag and the settings of that save, also when saves overlap.
C21_RowHoldsLastSave ==
  (history # <<>> /\ history[Len(history)].op = "save")
    => settings = SettingsRow(history[Len(history)].form)

C23_RejectionsAlike ==
  webhook.status = 401 => webhook.error = "Invalid webhook request"

\* ---- linkage claims
\* C24: a step of any operation leaves the 'shopify' external id of a linked
\* product as it is; the exceptions are the apply step of a verified products/delete
\* webhook, which clears it, and the admin's DELETE, which removes the product.
C24_LinkKeptUntilDeleteNotification ==
  [][\A p \in LocalIds :
       (Exists(p) /\ products[p].externalIds.shopify # NoId) =>
         \/ /\ Exists(p)'
            /\ products'[p].externalIds.shopify = products[p].externalIds.shopify
         \/ /\ Exists(p)'
            /\ products'[p].externalIds.shopify = NoId
            /\ webhook.pc = "dispatched" /\ webhook'.pc = "applied"
            /\ webhook.req.topic = "products/delete"
         \/ /\ ~Exists(p)'
            /\ response'.by = "delete"]_vars

\* ---- import update claims
\* C25: an import iteration on a remote product that a local product is linked to
\* leaves that product with the remote title, description, first-variant price and
\* barcode, with the stock of the remote inventory level or 0, and still linked to
\* the remote id; the number of local products stays the same.
C25_ImportUpdatesLinked ==
  [][(import.pc = "loop" /\ import'.pc = "loop" /\ import'.i = import.i + 1
      /\ ImportTarget(import.list[import.i]) # 0) =>
       LET shopifyProduct == import.list[import.i]
           p == ImportTarget(shopifyProduct)
       IN /\ LocalCount' = LocalCount
          /\ products'[p].name = shopifyProduct.title
          /\ products'[p].description = shopifyProduct.body_html
          /\ products'[p].price = parseFloat(shopifyProduct.price)
          /\ products'[p].barcode = shopifyProduct.barcode
          /\ products'[p].stockCount \in {0, remote[shopifyProduct.id].available}
          /\ products'[p].externalIds.shopify = ToString(shopifyProduct.id)]_vars

\* ---- product type claims
\* The local product the running import created for remote product shopifyProduct.
ImportedAs(shopifyProduct) ==
  {p \in LocalIds : Exists(p) /\ products[p].externalIds.shopify = ToString(shopifyProduct.id)}

\* C26: no two local product types bear the same name, and every product the
\* running import has created references the type whose name is the remote
\* product's product_type, taken literally, or 'General' when that is absent.
C26_ImportResolvesType ==
  /\ \A i, j \in DOMAIN productTypes : productTypes[i] = productTypes[j] => i = j
  /\ import.pc = "loop" =>
       \A k \in 1..(import.i - 1) :
         LET shopifyProduct == import.list[k]
         IN shopifyProduct.id \in import.importedIds =>
              \E p \in ImportedAs(shopifyProduct) :
                /\ productTypeId[p] \in DOMAIN productTypes
                /\ productTypes[productTypeId[p]] =
                     IF shopifyProduct.product_type = "" THEN "General"
                     ELSE shopifyProduct.product_type

\* An import has created products under 'General' (found, not created again)
\* and under 'general' (created by the import).
C26_Witness ==
  /\ import.pc = "loop" /\ import.imported = 2
  /\ \E i, j \in DOMAIN productTypes :
       /\ productTypes[i] = "General" /\ productTypes[j] = "general"
       /\ productTypeId[1] = i /\ productTypeId[2] = j

\* ---- stock claims
\* C27: the stock count of every local product is a non-negative integer.
C27_StockNonNegative ==
  \A p \in LocalIds : Exists(p) => products[p].stockCount \in Nat

\* ---- sync result claims
\* C29: when the single-product sync completed last returned true and no other
\* call is between its remote create and its save, the product it was called on is
\* stored with a 'shopify' id, and every remote product created for that product
\* is the one the stored id names.
C29_SuccessMeansLinked ==
  (/\ history # <<>> /\ history[Len(history)].op = "sync" /\ history[Len(history)].ok
   /\ MidCall = 0) =>
    LET pid == history[Len(history)].pid
    IN /\ Exists(pid)
       /\ products[pid].externalIds.shopify # NoId
       /\ \A r \in CreatedFor(pid) : products[pid].externalIds.shopify = ToString(r)

\* ---- link uniqueness claims
\* C28: with one sync, import or webhook operation at a time, no two local
\* products record the same 'shopify' id.
C28_ShopifyIdsDistinct ==
  \A p, q \in LocalIds :
    (/\ Exists(p) /\ Exists(q) /\ p # q
     /\ products[p].externalIds.shopify # NoId)
      => products[p].externalIds.shopify # products[q].externalIds.shopify

\* A product linked by its handler's sync and a product created by a later import
\* run that also passed over the first one's remote product.
C28_Witness ==
  /\ import.pc = "done" /\ import.imported = 1 /\ import.updated = 1
  /\ Exists(1) /\ products[1].externalIds.shopify = "1"
  /\ Exists(2) /\ products[2].externalIds.shopify = "2"

\* ---- sale transaction claims
\* The sale of task t has nothing to sell: the product is missing or short of the
\* quantity, as the transaction read it or as it is stored when the transaction ends.
Unsellable(t) ==
  \/ t.product.id = 0 \/ ~Exists(t.pid)
  \/ t.product.stockCount < t.quantity \/ products[t.pid].stockCount < t.quantity

\* C30: the step that ends a sale's transaction creates no sale row and leaves the
\* products as they are when the product is missing or short of the quantity,
\* answering 400 when the product was read short of it; otherwise it creates exactly
\* one sale row with totalPrice = price x quantity and lowers the product's stock
\* by the quantity; this also with other sales of the product in progress.
C30_SaleAllOrNothing ==
  [][\A t \in BagToSet(tasks) :
       SaleCommit(t) =>
         IF Unsellable(t)
         THEN /\ newSales' = <<>>
              /\ products' = products
              /\ response'.status \in {400, 500}
              /\ (t.product.id # 0 /\ t.product.stockCount < t.quantity)
                   => response'.status = 400
         ELSE /\ newSales' = <<[productId |-> t.pid, quantity |-> t.quantity,
                                totalPrice |-> products[t.pid].price * t.quantity]>>
              /\ products'[t.pid].stockCount = products[t.pid].stockCount - t.quantity]_vars

====
